---- MODULE Spec2Model ----
(***************************************************************************)
(* GeoSnap: the metadata extraction service (services/locationService.ts), *)
(* the AI guess service (services/geminiService.ts) and the App component  *)
(* that drives them (App.tsx, kept in .Jules/palette.md).                  *)
(***************************************************************************)
EXTENDS Integers, Sequences, FiniteSets, Bags, TLC

VARIABLES
    appState,      \* useState<AppState>: "IDLE" | "ANALYZING" | "RESULT"
    data,          \* useState<ProcessedImage | null>
    errorMsg,      \* useState<string | null>
    showStripper,  \* useState(false)
    apiKey,        \* process.env.API_KEY, fixed for one execution
    tasks,         \* bag of async handler invocations suspended at an await
    fnArg,         \* argument of the service function under test
    fnRet          \* its settled result, or Pending before the call

vars == <<appState, data, errorMsg, showStripper, apiKey, tasks, fnArg, fnRet>>

appVars == <<appState, data, errorMsg, showStripper, apiKey, tasks>>

fnVars == <<fnArg, fnRet>>

(***************************************************************************)
(* JavaScript values.  Every value is a record tagged by t, so that absent *)
(* values, numbers (finite or not), strings and objects can be compared.   *)
(***************************************************************************)
Undef == [t |-> "undefined"]

Null == [t |-> "null"]

NaN == [t |-> "NaN"]

Infinity == [t |-> "Infinity"]

Num(n) == [t |-> "number", n |-> n]

Str(s) == [t |-> "string", s |-> s]

Date(d) == [t |-> "date", d |-> d]

Throw == [t |-> "throw"]

Pending == [t |-> "pending"]

\* JavaScript truthiness: undefined, null, NaN, 0 and "" are falsy.
Truthy(x) ==
    CASE x.t \in {"undefined", "null", "NaN"} -> FALSE
      [] x.t = "number" -> x.n # 0
      [] x.t = "string" -> x.s # ""
      [] OTHER -> TRUE

\* a || b
Or(a, b) == IF Truthy(a) THEN a ELSE b

\* Number.isFinite
IsFinite(x) == x.t = "number"

\* String(x) inside a template literal
TemplateString(x) ==
    CASE x.t = "undefined" -> "undefined"
      [] x.t = "null" -> "null"
      [] x.t = "string" -> x.s
      [] OTHER -> "[object]"

(***************************************************************************)
(* extractImageMetadata (locationService.ts).  The argument is what        *)
(* `await exifr.parse(file)` settles to: Throw, undefined, or the object   *)
(* of parsed tags (a missing tag reads as undefined).                      *)
(***************************************************************************)
CameraTags == {"Make", "Model", "ExposureTime", "FNumber", "ISO", "FocalLength", "LensModel"}

Tags(lat, lng, dto, cd, cam) ==
    [t |-> "object", latitude |-> lat, longitude |-> lng,
     DateTimeOriginal |-> dto, CreateDate |-> cd,
     Make |-> cam.Make, Model |-> cam.Model, ExposureTime |-> cam.ExposureTime,
     FNumber |-> cam.FNumber, ISO |-> cam.ISO, FocalLength |-> cam.FocalLength,
     LensModel |-> cam.LensModel]

\* lines 16-22
ExtractLocation(output) ==
    IF Truthy(output) /\ Truthy(output.latitude) /\ Truthy(output.longitude)
    THEN [t |-> "object", lat |-> output.latitude, lng |-> output.longitude]
    ELSE Null

\* Fault model of lines 24-29: the two date tags consulted in the wrong order.
ExtractDateCreateFirst(output) ==
    IF Truthy(output) /\ Truthy(output.CreateDate) THEN output.CreateDate
    ELSE IF Truthy(output) /\ Truthy(output.DateTimeOriginal) THEN output.DateTimeOriginal
    ELSE Null

\* lines 24-29
ExtractDate(output) ==
    IF Truthy(output) /\ Truthy(output.DateTimeOriginal) THEN output.DateTimeOriginal
    ELSE IF Truthy(output) /\ Truthy(output.CreateDate) THEN output.CreateDate
    ELSE Null

\* Fault model of lines 31-47: the hasData check of lines 45-46 left out.
ExtractDetailsNoEmptyCheck(output) ==
    IF Truthy(output)
    THEN [t |-> "object", make |-> output.Make, model |-> output.Model,
          exposureTime |-> output.ExposureTime, fNumber |-> output.FNumber,
          iso |-> output.ISO, focalLength |-> output.FocalLength,
          lensModel |-> output.LensModel]
    ELSE Null

\* lines 31-47
ExtractDetails(output) ==
    IF Truthy(output)
    THEN LET exifDetails ==
                 [t |-> "object", make |-> output.Make, model |-> output.Model,
                  exposureTime |-> output.ExposureTime, fNumber |-> output.FNumber,
                  iso |-> output.ISO, focalLength |-> output.FocalLength,
                  lensModel |-> output.LensModel]
             hasData ==
                 \E val \in {exifDetails.make, exifDetails.model, exifDetails.exposureTime,
                             exifDetails.fNumber, exifDetails.iso, exifDetails.focalLength,
                             exifDetails.lensModel} : val # Undef
         IN  IF hasData THEN exifDetails ELSE Null
    ELSE Null

Returned(location, date, exifDetails) ==
    [t |-> "return", location |-> location, date |-> date, exifDetails |-> exifDetails]

\* Fault model of lines 7-54: no try/catch around the parse.
extractImageMetadataNoCatch(parsed) ==
    IF parsed = Throw
    THEN Throw
    ELSE Returned(ExtractLocation(parsed), ExtractDate(parsed), ExtractDetails(parsed))

\* lines 7-54
extractImageMetadata(parsed) ==
    IF parsed = Throw
    THEN Returned(Null, Null, Null)
    ELSE Returned(ExtractLocation(parsed), ExtractDate(parsed), ExtractDetails(parsed))

(***************************************************************************)
(* Inputs of extractImageMetadata: every combination of GPS tags (missing, *)
(* NaN, Infinity, zero, non-zero), date tags and camera tags.              *)
(***************************************************************************)
LatitudeTags == {Undef, NaN, Infinity, Num(0), Num(37)}

LongitudeTags == {Undef, NaN, Infinity, Num(0), Num(-122)}

DateTimeOriginalTags == {Undef, Date("2024-05-22T10:00")}

CreateDateTags == {Undef, Date("2024-05-23T09:30")}

CameraTagValue(tag) ==
    CASE tag = "Make" -> Str("Canon")
      [] tag = "Model" -> Str("EOS R5")
      [] tag = "ExposureTime" -> Num(2)
      [] tag = "FNumber" -> Num(4)
      [] tag = "ISO" -> Num(100)
      [] tag = "FocalLength" -> Num(50)
      [] tag = "LensModel" -> Str("RF50")

\* The camera tags of a file in which exactly the tags of `present` are written.
Camera(present) == [tag \in CameraTags |-> IF tag \in present THEN CameraTagValue(tag) ELSE Undef]

ParsedTagSets ==
    {Tags(lat, lng, dto, cd, Camera(present)) :
        lat \in LatitudeTags, lng \in LongitudeTags,
        dto \in DateTimeOriginalTags, cd \in CreateDateTags,
        present \in SUBSET CameraTags}

ParseOutcomes == {Throw, Undef} \cup ParsedTagSets

InitApp ==
    /\ appState = "IDLE"
    /\ data = Null
    /\ errorMsg = Null
    /\ showStripper = FALSE
    /\ tasks = EmptyBag

InitExtract ==
    /\ InitApp
    /\ apiKey = TRUE
    /\ fnArg \in ParseOutcomes
    /\ fnRet = Pending

CallExtract ==
    /\ fnRet = Pending
    /\ fnRet' = extractImageMetadata(fnArg)
    /\ UNCHANGED <<fnArg, appVars>>

NextExtract == CallExtract

SpecExtract == InitExtract /\ [][NextExtract]_vars

(***************************************************************************)
(* Properties of extractImageMetadata, checked under SpecExtract.          *)
(***************************************************************************)
Extracted == fnRet # Pending

AllAbsent == Returned(Null, Null, Null)

\* C5: extractImageMetadata never propagates an error, and when the parser
\* yields nothing or throws, location, date and exifDetails are all null.
C5_ExtractNeverThrows ==
    Extracted =>
        /\ fnRet.t = "return"
        /\ fnArg \in {Throw, Undef} => fnRet = AllAbsent

C5_Witness == Extracted /\ fnArg = Throw /\ fnRet = AllAbsent

\* C6: when latitude and longitude are both present and finite (zero
\* included), the returned coordinate carries exactly the two tag values.
C6_FiniteTagsGiveCoordinate ==
    (Extracted /\ fnArg.t = "object" /\ IsFinite(fnArg.latitude) /\ IsFinite(fnArg.longitude))
        => fnRet.location = [t |-> "object", lat |-> fnArg.latitude, lng |-> fnArg.longitude]

\* C7: a coordinate is returned only if both the latitude and the longitude
\* tag are present and finite; otherwise the coordinate is absent.
C7_CoordinateOnlyIfFinite ==
    (Extracted /\ fnRet.location # Null)
        => /\ fnArg.t = "object"
           /\ IsFinite(fnArg.latitude)
           /\ IsFinite(fnArg.longitude)

C9_DateResolutionOrder ==
    (Extracted /\ fnArg.t = "object") =>
        fnRet.date = IF fnArg.DateTimeOriginal # Undef THEN fnArg.DateTimeOriginal
                     ELSE IF fnArg.CreateDate # Undef THEN fnArg.CreateDate
                     ELSE Null

C9_Witness ==
    /\ Extracted
    /\ fnArg.t = "object"
    /\ fnArg.DateTimeOriginal # Undef
    /\ fnArg.CreateDate # Undef
    /\ fnRet.date = fnArg.DateTimeOriginal

(***************************************************************************)
(* reverseGeocode (locationService.ts).  The argument is what the request  *)
(* to Nominatim settles to: a rejected fetch, or a response with its ok    *)
(* flag and its body; the body is unparsable, or the parsed JSON value.    *)
(***************************************************************************)
FetchRejected == [t |-> "reject"]

Response(ok, body) == [t |-> "response", ok |-> ok, body |-> body]

InvalidJson == [t |-> "invalid"]

Address(city, town, village, hamlet, state, region, country) ==
    [t |-> "object", city |-> city, town |-> town, village |-> village,
     hamlet |-> hamlet, state |-> state, region |-> region, country |-> country]

EmptyObject == Address(Undef, Undef, Undef, Undef, Undef, Undef, Undef)

Payload(address, display_name) ==
    [t |-> "object", address |-> address, display_name |-> display_name]

\* Fault model of line 73: village consulted before town.
GeocodeResultVillageFirst(payload) ==
    LET address == Or(payload.address, EmptyObject)
        city == Or(Or(Or(address.city, address.village), address.town), address.hamlet)
        state == Or(address.state, address.region)
        country == address.country
    IN  [t |-> "object", city |-> city, state |-> state, country |-> country,
         displayName |-> Or(payload.display_name,
                            Str(TemplateString(city) \o ", " \o TemplateString(country)))]

\* lines 72-82
GeocodeResult(payload) ==
    LET address == Or(payload.address, EmptyObject)
        city == Or(Or(Or(address.city, address.town), address.village), address.hamlet)
        state == Or(address.state, address.region)
        country == address.country
    IN  [t |-> "object", city |-> city, state |-> state, country |-> country,
         displayName |-> Or(payload.display_name,
                            Str(TemplateString(city) \o ", " \o TemplateString(country)))]

\* Whether lines 62-82 throw: rejected fetch, !response.ok, response.json()
\* rejecting, or a property read on a null payload.
GeocodeThrows(net) ==
    \/ net.t = "reject"
    \/ ~net.ok
    \/ net.body = InvalidJson
    \/ net.body = Null

\* Fault model of lines 59-87: no try/catch, the error reaches the caller.
reverseGeocodeNoCatch(net) ==
    IF GeocodeThrows(net) THEN Throw ELSE GeocodeResult(net.body)

\* lines 59-87
reverseGeocode(net) ==
    IF GeocodeThrows(net) THEN Null ELSE GeocodeResult(net.body)

Addresses ==
    {Address(city, town, village, hamlet, state, region, country) :
        city \in {Undef, Str(""), Str("San Francisco")},
        town \in {Undef, Str("Mill Valley")},
        village \in {Undef, Str("Bolinas")},
        hamlet \in {Undef, Str(""), Str("Muir Beach")},
        state \in {Undef, Str("California")},
        region \in {Undef, Str("West Coast")},
        country \in {Undef, Str("United States")}}

Payloads ==
    {Payload(address, display_name) :
        address \in {Undef} \cup Addresses,
        display_name \in {Undef, Str(""), Str("San Francisco, California, United States")}}

GeocodeOutcomes ==
    {FetchRejected, Response(FALSE, InvalidJson), Response(FALSE, Payload(Undef, Undef)),
     Response(TRUE, InvalidJson), Response(TRUE, Null)}
        \cup {Response(TRUE, payload) : payload \in Payloads}

InitGeocode ==
    /\ InitApp
    /\ apiKey = TRUE
    /\ fnArg \in GeocodeOutcomes
    /\ fnRet = Pending

CallGeocode ==
    /\ fnRet = Pending
    /\ fnRet' = reverseGeocode(fnArg)
    /\ UNCHANGED <<fnArg, appVars>>

NextGeocode == CallGeocode

SpecGeocode == InitGeocode /\ [][NextGeocode]_vars

Geocoded == fnRet # Pending

\* C10: reverseGeocode never raises to its caller; on a non-success
\* response, a network error or a malformed JSON payload it returns null.
C10_GeocodeNeverThrows ==
    Geocoded =>
        /\ fnRet # Throw
        /\ (fnArg.t = "reject" \/ ~fnArg.ok \/ fnArg.body = InvalidJson) => fnRet = Null

C10_Witness ==
    /\ Geocoded
    /\ fnArg = Response(FALSE, Payload(Undef, Undef))
    /\ fnRet = Null

\* The request settled to a JSON object that carries an address object.
GeocodedAddress ==
    /\ Geocoded
    /\ fnArg.t = "response"
    /\ fnArg.ok
    /\ fnArg.body \in Payloads
    /\ fnArg.body.address # Undef

\* C11: the city of the result is the first non-empty value among city,
\* town, village and hamlet of the address, in that order; when all four
\* are empty the result carries no city (undefined, or an empty string).
C11_CityPrecedence ==
    GeocodedAddress =>
        LET address == fnArg.body.address
        IN  /\ fnRet # Null
            /\ fnRet.city =
                   IF Truthy(address.city) THEN address.city
                   ELSE IF Truthy(address.town) THEN address.town
                   ELSE IF Truthy(address.village) THEN address.village
                   ELSE IF Truthy(address.hamlet) THEN address.hamlet
                   ELSE fnRet.city
            /\ (\A field \in {address.city, address.town, address.village, address.hamlet} :
                    ~Truthy(field)) => ~Truthy(fnRet.city)

C11_Witness ==
    /\ GeocodedAddress
    /\ fnArg.body.address.city = Undef
    /\ fnArg.body.address.town = Str("Mill Valley")
    /\ fnArg.body.address.village = Str("Bolinas")
    /\ fnRet.city = Str("Mill Valley")

(***************************************************************************)
(* guessLocationWithAI (services/geminiService.ts).  `read` is whether the *)
(* FileReader of fileToGenerativePart succeeds; `reply` is what            *)
(* generateContent settles to: a rejection, or a response with its text.   *)
(***************************************************************************)
GenerateRejected == [t |-> "reject"]

\* response.text: empty, not JSON, or the JSON text of `json`
Reply(text, json) == [t |-> "response", text |-> text, json |-> json]

AiResult(locationName, lat, lng, confidence, reasoning) ==
    [t |-> "object", locationName |-> locationName, lat |-> lat, lng |-> lng,
     confidence |-> confidence, reasoning |-> reasoning]

\* lines 40-79: the request, the text check and JSON.parse
ParseReply(reply) ==
    IF reply.t = "reject" THEN Throw
    ELSE IF reply.text = "empty" THEN Throw
    ELSE IF reply.text = "invalid" THEN Throw
    ELSE reply.json

\* Fault model of lines 25-27: the API key is never looked at.
AiKeyNeverChecked(key) == FALSE

\* lines 25-27: the test `!process.env.API_KEY`
AiKeyMissing(key) == ~key

\* lines 24-80
guessLocationWithAI(key, read, reply) ==
    IF AiKeyMissing(key) THEN Throw
    ELSE IF ~read THEN Throw
    ELSE ParseReply(reply)

(***************************************************************************)
(* The App component.                                                      *)
(***************************************************************************)
MaxTasks == 2

True == [t |-> "boolean", b |-> TRUE]

AiFailedMsg == Str("AI analysis failed. Please try again or use a different image.")

UrlFailedMsg == Str("Failed to load image from URL. The server might block cross-origin requests.")

DropInvalidMsg == Str("Please drop a valid image file or image URL.")

\* The files a user can pick or drop, and the file built from a dropped URL.
PickedFiles == {"nogps.jpg", "gps.jpg", "screenshot.png", "notes.txt", "huge.jpg"}

\* file.type and the size of each file, in megabytes.
FileType(file) ==
    CASE file = "screenshot.png" -> "image/png"
      [] file = "notes.txt" -> "text/plain"
      [] OTHER -> "image/jpeg"

FileMegabytes(file) == IF file = "huge.jpg" THEN 12 ELSE 2

\* line 97: the types handleDrop lets through
AcceptedTypes == {"image/jpeg", "image/png", "image/webp"}

\* line 535: the limit the upload zone advertises
MaxMegabytes == 10

UrlFile == "image-from-url.jpg"

\* What exifr.parse settles to for each file.
ParsedFiles ==
    [file \in PickedFiles \cup {UrlFile} |->
        CASE file = "gps.jpg" ->
                 Tags(Num(37), Num(-122), Date("2024-05-22T10:00"), Undef, Camera({"Make", "Model"}))
          [] file = "nogps.jpg" ->
                 Tags(Undef, Undef, Undef, Date("2024-05-23T09:30"), Camera({"Make"}))
          [] file = "huge.jpg" ->
                 Tags(Num(51), Num(7), Undef, Undef, Camera({}))
          [] file = "screenshot.png" -> Undef
          [] OTHER -> Throw]

FileParse(file) == ParsedFiles[file]

\* What the request of reverseGeocode can settle to while the app runs.
AppGeocodeOutcomes ==
    {FetchRejected,
     Response(TRUE, Payload(Address(Str("San Francisco"), Undef, Undef, Undef,
                                    Str("California"), Undef, Str("United States")),
                            Str("San Francisco, California, United States")))}

\* What generateContent can settle to while the app runs.
AppAiReplies ==
    {GenerateRejected,
     Reply("empty", Undef),
     Reply("invalid", Undef),
     Reply("json", AiResult(Str("Paris, France"), Undef, Undef, Num(72), Str("Eiffel Tower visible"))),
     Reply("json", AiResult(Str("Paris, France"), Num(48), Num(2), Num(90), Str("Eiffel Tower visible"))),
     Reply("json", AiResult(Str("Gulf of Guinea"), Num(0), Num(3), Num(40), Str("Open sea"))),
     Reply("json", AiResult(Undef, Undef, Undef, Num(10), Undef)),
     Reply("json", AiResult(Str(""), Undef, Undef, Num(5), Str("Nothing recognisable"))),
     Reply("json", AiResult(Str("Far north"), Num(95), Num(200), Num(20), Str("Snow")))}

Task(k, pc, file) == [k |-> k, pc |-> pc, file |-> file]

Suspend(task) == tasks' = tasks (+) SetToBag({task})

Resume(task, next) == tasks' = (tasks (-) SetToBag({task})) (+) SetToBag({next})

Finish(task) == tasks' = tasks (-) SetToBag({task})

Suspended == BagToSet(tasks)

\* The upload zone and its file input are rendered (lines 446, 503-543).
IdleViewShown == ~showStripper /\ appState = "IDLE"

\* The result view is rendered (line 590).
ResultViewShown == ~showStripper /\ appState = "RESULT" /\ data # Null

\* The error paragraph is rendered: it is part of the idle view only
\* (lines 446, 546-555).
ErrorShown == IdleViewShown /\ Truthy(errorMsg)

\* Fault model of line 623: the button is offered whether or not the record
\* has GPS.
AiButtonShownIgnoresGps == ResultViewShown /\ ~Truthy(data.aiGuessed)

\* The "Guess Location with AI" button is rendered (lines 623, 643).
AiButtonShown == ResultViewShown /\ ~data.gpsFound /\ ~Truthy(data.aiGuessed)

\* Fault model of line 158: gpsFound taken from the geocoder's answer.
NewRecordGpsFromGeocoder(file, extracted, locationInfo) ==
    [t |-> "object",
     file |-> file,
     previewUrl |-> "blob:" \o file,
     exifLocation |-> Or(extracted.location, Undef),
     exifDate |-> Or(extracted.date, Undef),
     exifDetails |-> Or(extracted.exifDetails, Undef),
     locationInfo |-> Or(locationInfo, Undef),
     gpsFound |-> Truthy(locationInfo),
     aiGuessed |-> Undef,
     aiConfidence |-> Undef,
     aiReasoning |-> Undef]

\* lines 151-159: the record processFile publishes
NewRecord(file, extracted, locationInfo) ==
    [t |-> "object",
     file |-> file,
     previewUrl |-> "blob:" \o file,
     exifLocation |-> Or(extracted.location, Undef),
     exifDate |-> Or(extracted.date, Undef),
     exifDetails |-> Or(extracted.exifDetails, Undef),
     locationInfo |-> Or(locationInfo, Undef),
     gpsFound |-> Truthy(extracted.location),
     aiGuessed |-> Undef,
     aiConfidence |-> Undef,
     aiReasoning |-> Undef]

\* Fault model of lines 173-180: the record is rebuilt without spreading prev,
\* so the extracted date and camera details are lost.
MergeAiGuessDropsExif(prev, result) ==
    IF prev = Null THEN Null
    ELSE [prev EXCEPT
             !.exifLocation = IF Truthy(result.lat) /\ Truthy(result.lng)
                              THEN [t |-> "object", lat |-> result.lat, lng |-> result.lng]
                              ELSE Undef,
             !.exifDate = Undef,
             !.exifDetails = Undef,
             !.locationInfo = [t |-> "object", displayName |-> result.locationName],
             !.aiGuessed = True,
             !.aiConfidence = result.confidence,
             !.aiReasoning = result.reasoning]

\* Fault model of lines 173-180: a guess with coordinates marks the record
\* as having GPS.
MergeAiGuessMarksGps(prev, result) ==
    IF prev = Null THEN Null
    ELSE [prev EXCEPT
             !.exifLocation = IF Truthy(result.lat) /\ Truthy(result.lng)
                              THEN [t |-> "object", lat |-> result.lat, lng |-> result.lng]
                              ELSE Undef,
             !.gpsFound = prev.gpsFound \/ (Truthy(result.lat) /\ Truthy(result.lng)),
             !.locationInfo = [t |-> "object", displayName |-> result.locationName],
             !.aiGuessed = True,
             !.aiConfidence = result.confidence,
             !.aiReasoning = result.reasoning]

\* Fault model of line 175: a guess without coordinates keeps the coordinate
\* the record already has.
MergeAiGuessKeepsCoordinate(prev, result) ==
    IF prev = Null THEN Null
    ELSE [prev EXCEPT
             !.exifLocation = IF Truthy(result.lat) /\ Truthy(result.lng)
                              THEN [t |-> "object", lat |-> result.lat, lng |-> result.lng]
                              ELSE prev.exifLocation,
             !.locationInfo = [t |-> "object", displayName |-> result.locationName],
             !.aiGuessed = True,
             !.aiConfidence = result.confidence,
             !.aiReasoning = result.reasoning]

\* lines 171-181: the updater handleAiGuess passes to setData
MergeAiGuess(prev, result) ==
    IF prev = Null THEN Null
    ELSE [prev EXCEPT
             !.exifLocation = IF Truthy(result.lat) /\ Truthy(result.lng)
                              THEN [t |-> "object", lat |-> result.lat, lng |-> result.lng]
                              ELSE Undef,
             !.locationInfo = [t |-> "object", displayName |-> result.locationName],
             !.aiGuessed = True,
             !.aiConfidence = result.confidence,
             !.aiReasoning = result.reasoning]

\* lines 137-144: processFile up to its first await
StartProcessFile(file) ==
    /\ appState' = "ANALYZING"
    /\ errorMsg' = Null
    /\ UNCHANGED <<data, showStripper>>

\* lines 72-76: a file chosen in the picker
handleFileUpload ==
    /\ IdleViewShown
    /\ BagCardinality(tasks) < MaxTasks
    /\ \E file \in PickedFiles :
           /\ StartProcessFile(file)
           /\ Suspend(Task("processFile", "extract", file))
    /\ UNCHANGED <<apiKey, fnVars>>

\* lines 91-100: a dropped image file
handleDropFile ==
    /\ IdleViewShown
    /\ BagCardinality(tasks) < MaxTasks
    /\ \E file \in PickedFiles :
           /\ FileType(file) \in AcceptedTypes
           /\ StartProcessFile(file)
           /\ Suspend(Task("processFile", "extract", file))
    /\ UNCHANGED <<apiKey, fnVars>>

\* lines 102-110, 116-122: a dropped image URL, processImageUrl up to the fetch
handleDropUrl ==
    /\ IdleViewShown
    /\ BagCardinality(tasks) < MaxTasks
    /\ appState' = "ANALYZING"
    /\ errorMsg' = Null
    /\ Suspend(Task("processImageUrl", "fetch", UrlFile))
    /\ UNCHANGED <<data, showStripper, apiKey, fnVars>>

\* lines 102-112: a drop that is neither an accepted file nor an image URL
handleDropInvalid ==
    /\ IdleViewShown
    /\ errorMsg' = DropInvalidMsg
    /\ UNCHANGED <<appState, data, showStripper, tasks, apiKey, fnVars>>

\* lines 122-128: the fetch succeeded, processFile starts on the fetched file
UrlFetched ==
    \E task \in Suspended :
        /\ task.k = "processImageUrl"
        /\ StartProcessFile(task.file)
        /\ Resume(task, Task("processFile", "extract", task.file))
        /\ UNCHANGED <<apiKey, fnVars>>

\* lines 122-123, 129-133: the fetch failed
UrlFetchFailed ==
    \E task \in Suspended :
        /\ task.k = "processImageUrl"
        /\ errorMsg' = UrlFailedMsg
        /\ appState' = "IDLE"
        /\ Finish(task)
        /\ UNCHANGED <<data, showStripper, apiKey, fnVars>>

\* Fault model of lines 151-159: the new fields are spread over the previous
\* record, so what an AI merge wrote to it stays.
PublishOverPrevious(file, extracted, locationInfo) ==
    /\ data' = IF data = Null
               THEN NewRecord(file, extracted, locationInfo)
               ELSE [NewRecord(file, extracted, locationInfo) EXCEPT
                        !.aiGuessed = data.aiGuessed,
                        !.aiConfidence = data.aiConfidence,
                        !.aiReasoning = data.aiReasoning]
    /\ appState' = "RESULT"
    /\ UNCHANGED <<errorMsg, showStripper>>

\* lines 151-161: setData and setAppState(RESULT)
Publish(file, extracted, locationInfo) ==
    /\ data' = NewRecord(file, extracted, locationInfo)
    /\ appState' = "RESULT"
    /\ UNCHANGED <<errorMsg, showStripper>>

\* Fault model of lines 147-149: without a coordinate processFile goes on to
\* send the image to the AI service by itself.
AfterExtractAutoAi(task) ==
    LET extracted == extractImageMetadata(FileParse(task.file))
    IN  IF Truthy(extracted.location)
        THEN /\ Resume(task, Task("processFile", "geocode", task.file))
             /\ UNCHANGED <<appState, data, errorMsg, showStripper>>
        ELSE /\ Resume(task, Task("processFile", "generate", task.file))
             /\ UNCHANGED <<appState, data, errorMsg, showStripper>>

\* Fault model of lines 147-149: reverseGeocode is requested whether or not
\* the extraction returned a coordinate.
AfterExtractAlwaysGeocode(task) ==
    /\ Resume(task, Task("processFile", "geocode", task.file))
    /\ UNCHANGED <<appState, data, errorMsg, showStripper>>

\* lines 144-161: processFile after extractImageMetadata has settled
AfterExtract(task) ==
    LET extracted == extractImageMetadata(FileParse(task.file))
    IN  IF Truthy(extracted.location)
        THEN /\ Resume(task, Task("processFile", "geocode", task.file))
             /\ UNCHANGED <<appState, data, errorMsg, showStripper>>
        ELSE /\ Publish(task.file, extracted, Null)
             /\ Finish(task)

ExtractDone ==
    \E task \in Suspended :
        /\ task.k = "processFile"
        /\ task.pc = "extract"
        /\ AfterExtract(task)
        /\ UNCHANGED <<apiKey, fnVars>>

\* lines 148-161: processFile after the request of reverseGeocode has
\* settled to `net`
GeocodeDoneWith(task, net) ==
    /\ task.k = "processFile"
    /\ task.pc = "geocode"
    /\ Publish(task.file, extractImageMetadata(FileParse(task.file)), reverseGeocode(net))
    /\ Finish(task)
    /\ UNCHANGED <<apiKey, fnVars>>

GeocodeDone ==
    \E task \in Suspended, net \in AppGeocodeOutcomes : GeocodeDoneWith(task, net)

\* Fault model of lines 183-187: the catch block also drops the record.
AiCatchDropsRecord ==
    /\ errorMsg' = AiFailedMsg
    /\ appState' = "RESULT"
    /\ data' = Null
    /\ UNCHANGED showStripper

\* Fault model of lines 183-187: the catch block forgets setAppState.
AiCatchKeepsAnalyzing ==
    /\ errorMsg' = AiFailedMsg
    /\ UNCHANGED <<appState, data, showStripper>>

\* lines 183-187: the catch block of handleAiGuess
AiCatch ==
    /\ errorMsg' = AiFailedMsg
    /\ appState' = "RESULT"
    /\ UNCHANGED <<data, showStripper>>

\* lines 171-182: the guess is merged into the record
AiMerge(result) ==
    /\ data' = MergeAiGuess(data, result)
    /\ appState' = "RESULT"
    /\ UNCHANGED <<errorMsg, showStripper>>

\* lines 164-169 (and geminiService.ts 24-30): the click on the AI button,
\* up to the FileReader await
handleAiGuess ==
    /\ AiButtonShown
    /\ ~AiKeyMissing(apiKey)
    /\ BagCardinality(tasks) < MaxTasks
    /\ appState' = "ANALYZING"
    /\ Suspend(Task("handleAiGuess", "read", data.file))
    /\ UNCHANGED <<data, errorMsg, showStripper, apiKey, fnVars>>

\* lines 164-169, 183-187 (and geminiService.ts 25-27): the click without an
\* API key; the rejection is handled before any other event can run
handleAiGuessNoKey ==
    /\ AiButtonShown
    /\ AiKeyMissing(apiKey)
    /\ \A reply \in AppAiReplies : guessLocationWithAI(apiKey, TRUE, reply) = Throw
    /\ AiCatch
    /\ UNCHANGED <<tasks, apiKey, fnVars>>

\* geminiService.ts 30-41: the file is read, the request is sent
AiReadDone ==
    \E task \in Suspended :
        /\ task.k = "handleAiGuess"
        /\ task.pc = "read"
        /\ Resume(task, Task("handleAiGuess", "generate", task.file))
        /\ UNCHANGED <<appState, data, errorMsg, showStripper, apiKey, fnVars>>

\* geminiService.ts 16, App 183-187: the FileReader fails
AiReadFailed ==
    \E task \in Suspended :
        /\ task.k = "handleAiGuess"
        /\ task.pc = "read"
        /\ \A reply \in AppAiReplies : guessLocationWithAI(apiKey, FALSE, reply) = Throw
        /\ AiCatch
        /\ Finish(task)
        /\ UNCHANGED <<apiKey, fnVars>>

\* lines 169-182: guessLocationWithAI resolved with the result of `reply`
AiGuessedWith(task, reply) ==
    /\ task.k = "handleAiGuess"
    /\ task.pc = "generate"
    /\ guessLocationWithAI(apiKey, TRUE, reply) # Throw
    /\ AiMerge(guessLocationWithAI(apiKey, TRUE, reply))
    /\ Finish(task)
    /\ UNCHANGED <<apiKey, fnVars>>

AiGuessed ==
    \E task \in Suspended, reply \in AppAiReplies : AiGuessedWith(task, reply)

\* lines 169, 183-187: guessLocationWithAI rejected
AiGuessFailed ==
    \E task \in Suspended, reply \in AppAiReplies :
        /\ task.k = "handleAiGuess"
        /\ task.pc = "generate"
        /\ guessLocationWithAI(apiKey, TRUE, reply) = Throw
        /\ AiCatch
        /\ Finish(task)
        /\ UNCHANGED <<apiKey, fnVars>>

\* lines 190-197: the logo, or "Analyze Another Photo"
resetApp ==
    /\ appState' = "IDLE"
    /\ data' = Null
    /\ errorMsg' = Null
    /\ showStripper' = FALSE
    /\ UNCHANGED <<tasks, apiKey, fnVars>>

\* lines 293-299: the Strip EXIF toggle
toggleStripper ==
    /\ showStripper' = ~showStripper
    /\ IF ~showStripper
       THEN appState' = "IDLE" /\ data' = Null
       ELSE UNCHANGED <<appState, data>>
    /\ UNCHANGED <<errorMsg, tasks, apiKey, fnVars>>

Init ==
    /\ InitApp
    /\ apiKey \in BOOLEAN
    /\ fnArg = Undef
    /\ fnRet = Pending

Next ==
    \/ handleFileUpload
    \/ handleDropFile
    \/ handleDropUrl
    \/ handleDropInvalid
    \/ UrlFetched
    \/ UrlFetchFailed
    \/ ExtractDone
    \/ GeocodeDone
    \/ handleAiGuess
    \/ handleAiGuessNoKey
    \/ AiReadDone
    \/ AiReadFailed
    \/ AiGuessed
    \/ AiGuessFailed
    \/ resetApp
    \/ toggleStripper

Spec == Init /\ [][Next]_vars

\* Every awaited operation settles: the URL fetch, the extraction, the
\* geocoder request, the FileReader and the AI request each complete, one way
\* or the other, once started.  User actions are under no obligation.
Settles ==
    /\ WF_vars(UrlFetched \/ UrlFetchFailed)
    /\ WF_vars(ExtractDone)
    /\ WF_vars(GeocodeDone)
    /\ WF_vars(AiReadDone \/ AiReadFailed)
    /\ WF_vars(AiGuessed \/ AiGuessFailed)

SpecSettles == Spec /\ Settles

(***************************************************************************)
(* Properties of the App component, checked under Spec.                    *)
(***************************************************************************)
AllFiles == PickedFiles \cup {UrlFile}

\* C1: the record never has gpsFound = true together with aiGuessed = true:
\* a coordinate read from the embedded GPS tags is never overwritten by an
\* AI result, whatever the interleaving of user actions and completions.
C1_GpsNeverAiGuessed ==
    data # Null => ~(data.gpsFound /\ data.aiGuessed = True)

\* C2: when the AI call of handleAiGuess fails (no API key, file read or
\* network error, empty or unparsable response) the step that handles the
\* failure leaves the record as it is and sets errorMsg.
C2_AiFailureKeepsRecord ==
    [][(handleAiGuessNoKey \/ AiReadFailed \/ AiGuessFailed)
           => (data' = data /\ errorMsg' = AiFailedMsg)]_vars

C2_Witness ==
    /\ errorMsg = AiFailedMsg
    /\ appState = "RESULT"
    /\ data # Null
    /\ data.file = "nogps.jpg"
    /\ data.exifDate = Date("2024-05-23T09:30")
    /\ data.exifDetails # Undef
    /\ data.aiGuessed = Undef

\* C3: gpsFound of the record is true exactly when extractImageMetadata
\* returned a coordinate for the record's file, the record published by
\* processFile then holds that coordinate, and an AI merge leaves gpsFound
\* as it is.
C3_GpsFoundIffExtracted ==
    data # Null =>
        LET extracted == extractImageMetadata(FileParse(data.file))
        IN  /\ data.gpsFound = (extracted.location # Null)
            /\ (data.gpsFound /\ data.aiGuessed = Undef)
                   => data.exifLocation = extracted.location

C3_Witness ==
    /\ data # Null
    /\ data.gpsFound
    /\ data.aiGuessed = Undef
    /\ data.exifLocation = [t |-> "object", lat |-> Num(37), lng |-> Num(-122)]

\* C4: processing an uploaded image never involves the AI service: a read
\* of the file for the AI service starts only in a step taken while the AI
\* button is shown, for the displayed file; a request to the AI service is
\* sent only by such a read completing; and a processFile invocation is
\* only ever waiting for the local extraction or for the geocoder.
C4_AiOnlyOnClick ==
    [][/\ \A file \in AllFiles :
              CopiesIn(Task("handleAiGuess", "read", file), tasks')
                  > CopiesIn(Task("handleAiGuess", "read", file), tasks)
              => (AiButtonShown /\ file = data.file /\ appState' = "ANALYZING")
       /\ \A file \in AllFiles :
              CopiesIn(Task("handleAiGuess", "generate", file), tasks')
                  > CopiesIn(Task("handleAiGuess", "generate", file), tasks)
              => CopiesIn(Task("handleAiGuess", "read", file), tasks')
                     < CopiesIn(Task("handleAiGuess", "read", file), tasks)
       /\ \A task \in BagToSet(tasks') :
              /\ task.pc \in {"read", "generate"} => task.k = "handleAiGuess"
              /\ task.k = "processFile" => task.pc \in {"extract", "geocode"}]_vars

C4_Witness ==
    /\ appState = "ANALYZING"
    /\ data # Null
    /\ \E task \in Suspended :
           task = Task("handleAiGuess", "generate", data.file)

\* C12: whenever the record holds a locationInfo, from reverseGeocode or
\* from the AI merge, its displayName is a non-empty string.
C12_DisplayNamePopulated ==
    (data # Null /\ data.locationInfo # Undef)
        => /\ data.locationInfo.displayName.t = "string"
           /\ data.locationInfo.displayName.s # ""

\* C13: after a successful AI guess exifLocation is the guess's (lat, lng)
\* when the guess provides both (zero included), and absent otherwise.
C13_AiCoordinatesMerged ==
    [][\A task \in Suspended, reply \in AppAiReplies :
           (AiGuessedWith(task, reply) /\ data # Null)
               => LET result == ParseReply(reply)
                  IN  data'.exifLocation =
                          IF result.lat # Undef /\ result.lng # Undef
                          THEN [t |-> "object", lat |-> result.lat, lng |-> result.lng]
                          ELSE Undef]_vars

\* C14: a successful AI merge leaves exifDetails, exifDate, file, previewUrl
\* and gpsFound of the current record as they were.
C14_AiMergeFrame ==
    [][(AiGuessed /\ data # Null)
           => /\ data' # Null
              /\ data'.exifDetails = data.exifDetails
              /\ data'.exifDate = data.exifDate
              /\ data'.file = data.file
              /\ data'.previewUrl = data.previewUrl
              /\ data'.gpsFound = data.gpsFound]_vars

C14_Witness ==
    /\ data # Null
    /\ data.aiGuessed = True
    /\ data.file = "nogps.jpg"
    /\ data.exifDate = Date("2024-05-23T09:30")
    /\ data.exifDetails # Undef
    /\ data.exifLocation # Undef

\* C15: a successful AI guess on a record without embedded GPS gives
\* gpsFound = false, aiGuessed = true, displayName = the guess's
\* locationName, aiConfidence and aiReasoning those of the guess, and no
\* exifLocation when the guess carries no coordinates.
C15_AiMergeResult ==
    [][\A task \in Suspended, reply \in AppAiReplies :
           (AiGuessedWith(task, reply) /\ data # Null /\ ~data.gpsFound)
               => LET result == ParseReply(reply)
                  IN  /\ data' # Null
                      /\ ~data'.gpsFound
                      /\ data'.aiGuessed = True
                      /\ data'.locationInfo.displayName = result.locationName
                      /\ data'.aiConfidence = result.confidence
                      /\ data'.aiReasoning = result.reasoning
                      /\ (result.lat = Undef \/ result.lng = Undef)
                             => data'.exifLocation = Undef]_vars

C15_Witness ==
    /\ appState = "RESULT"
    /\ data # Null
    /\ ~data.gpsFound
    /\ data.aiGuessed = True
    /\ data.exifLocation = Undef
    /\ data.locationInfo = [t |-> "object", displayName |-> Str("Paris, France")]
    /\ data.aiConfidence = Num(72)
    /\ data.aiReasoning = Str("Eiffel Tower visible")

\* C16: without an API key no file read and no request to the AI service is
\* ever started.
C16_NoKeyNoRequest ==
    ~apiKey => \A task \in Suspended : task.k # "handleAiGuess"

C16_Witness ==
    /\ ~apiKey
    /\ appState = "RESULT"
    /\ data # Null
    /\ errorMsg = AiFailedMsg
    /\ tasks = EmptyBag

\* C17: a response that does not have the shape {locationName: string,
\* confidence: number, reasoning: string, ...} is never merged: a record
\* marked aiGuessed carries a string name, a number and a string reasoning.
C17_OnlyWellShapedGuessMerged ==
    (data # Null /\ data.aiGuessed = True)
        => /\ data.locationInfo.displayName.t = "string"
           /\ data.aiConfidence.t = "number"
           /\ data.aiReasoning.t = "string"

\* C18: a late result of an operation started for a superseded image is
\* discarded: an AI guess requested for another file than the one of the
\* current record does not change the record.
C18_StaleAiResultDiscarded ==
    [][\A task \in Suspended, reply \in AppAiReplies :
           (AiGuessedWith(task, reply) /\ data # Null /\ data.file # task.file)
               => data' = data]_vars

\* C19: at most one processFile, processImageUrl or AI operation is in
\* flight at any moment.
C19_OneOperationInFlight == BagCardinality(tasks) <= 1

\* C20: every coordinate held in exifLocation has its latitude in
\* [-90, 90] and its longitude in [-180, 180].
C20_CoordinateInRange ==
    (data # Null /\ data.exifLocation # Undef)
        => /\ data.exifLocation.lat.t = "number"
           /\ data.exifLocation.lng.t = "number"
           /\ data.exifLocation.lat.n >= -90
           /\ data.exifLocation.lat.n <= 90
           /\ data.exifLocation.lng.n >= -180
           /\ data.exifLocation.lng.n <= 180

\* C21: the AI collaborator is invoked only for a record whose gpsFound is
\* false at the moment of invocation: a click on the AI button, the only
\* caller of handleAiGuess, is taken only while the displayed record has
\* gpsFound = false and aiGuessed not set.
C21_AiOnlyWithoutGps ==
    [][(handleAiGuess \/ handleAiGuessNoKey)
           => (/\ data # Null
               /\ data.gpsFound = FALSE
               /\ data.aiGuessed = Undef)]_vars

C21_Witness ==
    /\ appState = "ANALYZING"
    /\ data # Null
    /\ data.gpsFound = FALSE
    /\ data.aiGuessed = Undef
    /\ \E task \in Suspended :
           task = Task("handleAiGuess", "read", data.file)

\* C22: within one run of processFile, reverseGeocode is requested if and
\* only if the extraction returned a coordinate, only by the step in which
\* the extraction completes, and once: the step in which the request
\* settles publishes the record and requests nothing again.  The record is
\* published only by the last of these steps.
C22_GeocodeIffCoordinate ==
    [][\A file \in AllFiles :
           LET found == Truthy(extractImageMetadata(FileParse(file)).location)
               extract == Task("processFile", "extract", file)
               geocode == Task("processFile", "geocode", file)
               extractDone == CopiesIn(extract, tasks') < CopiesIn(extract, tasks)
               geocodeAsked == CopiesIn(geocode, tasks') > CopiesIn(geocode, tasks)
               geocodeDone == CopiesIn(geocode, tasks') < CopiesIn(geocode, tasks)
               published == /\ data' # Null
                            /\ data'.file = file
                            /\ appState' = "RESULT"
           IN  /\ geocodeAsked => (found /\ extractDone /\ data' = data)
               /\ (extractDone /\ found) => geocodeAsked
               /\ (extractDone /\ ~found)
                      => (published /\ BagCardinality(tasks') < BagCardinality(tasks))
               /\ geocodeDone
                      => (published /\ BagCardinality(tasks') < BagCardinality(tasks))]_vars

C22_Witness ==
    /\ appState = "ANALYZING"
    /\ data = Null
    /\ \E task \in Suspended :
           /\ task = Task("processFile", "geocode", "gps.jpg")
           /\ CopiesIn(task, tasks) = 1

\* C23: when the extraction found a coordinate and the geocoder fails,
\* processFile still publishes a record and reaches RESULT, with exifLocation
\* the extracted coordinate, gpsFound = true and no locationInfo.
C23_GeocodeFailureStillPublishes ==
    [][\A task \in Suspended, net \in AppGeocodeOutcomes :
           (GeocodeDoneWith(task, net) /\ GeocodeThrows(net))
               => LET extracted == extractImageMetadata(FileParse(task.file))
                  IN  /\ appState' = "RESULT"
                      /\ data' # Null
                      /\ data'.file = task.file
                      /\ Truthy(extracted.location)
                      /\ data'.exifLocation = extracted.location
                      /\ data'.gpsFound = TRUE
                      /\ data'.locationInfo = Undef]_vars

C23_Witness ==
    /\ appState = "RESULT"
    /\ data # Null
    /\ data.file = "gps.jpg"
    /\ data.gpsFound
    /\ data.exifLocation = [t |-> "object", lat |-> Num(37), lng |-> Num(-122)]
    /\ data.locationInfo = Undef
    /\ data.aiGuessed = Undef

\* C24: the record processFile publishes replaces the previous one as a
\* whole: each of its fields is that of the processed file and of this run's
\* extraction and geocoding, and aiGuessed, aiConfidence and aiReasoning are
\* absent, whatever record was held before.
C24_PublishReplacesRecord ==
    [][\A task \in Suspended :
           (/\ task.k = "processFile"
            /\ CopiesIn(task, tasks') < CopiesIn(task, tasks)
            /\ BagCardinality(tasks') < BagCardinality(tasks))
               => LET extracted == extractImageMetadata(FileParse(task.file))
                  IN  /\ data' # Null
                      /\ data'.aiGuessed = Undef
                      /\ data'.aiConfidence = Undef
                      /\ data'.aiReasoning = Undef
                      /\ data'.file = task.file
                      /\ data'.previewUrl = "blob:" \o task.file
                      /\ data'.exifLocation = Or(extracted.location, Undef)
                      /\ data'.exifDate = Or(extracted.date, Undef)
                      /\ data'.exifDetails = Or(extracted.exifDetails, Undef)
                      /\ data'.gpsFound = Truthy(extracted.location)
                      /\ data'.locationInfo
                             \in {Undef} \cup {reverseGeocode(net) : net \in AppGeocodeOutcomes}
                      /\ (task.pc = "extract") => data'.locationInfo = Undef]_vars

\* A record carrying an AI guess is held while a processFile run for another
\* file is about to publish.
C24_Witness ==
    /\ data # Null
    /\ data.aiGuessed = True
    /\ data.aiReasoning # Undef
    /\ \E task \in Suspended :
           /\ task.k = "processFile"
           /\ task.file # data.file

\* C25: a successful AI merge into a record that already carries an AI guess
\* comes from a request of its own, and leaves the AI-derived fields
\* (exifLocation, locationInfo, aiGuessed, aiConfidence, aiReasoning) equal to
\* those of merging this guess alone: nothing of the earlier guess remains,
\* and a guess without coordinates leaves exifLocation absent.
C25_SecondGuessAlone ==
    [][\A task \in Suspended, reply \in AppAiReplies :
           (AiGuessedWith(task, reply) /\ data # Null /\ data.aiGuessed = True)
               => LET result == guessLocationWithAI(apiKey, TRUE, reply)
                      before == [data EXCEPT !.exifLocation = Undef,
                                             !.locationInfo = Undef,
                                             !.aiGuessed = Undef,
                                             !.aiConfidence = Undef,
                                             !.aiReasoning = Undef]
                      alone == MergeAiGuess(before, result)
                  IN  /\ CopiesIn(task, tasks') = CopiesIn(task, tasks) - 1
                      /\ data'.exifLocation = alone.exifLocation
                      /\ data'.locationInfo = alone.locationInfo
                      /\ data'.aiGuessed = alone.aiGuessed
                      /\ data'.aiConfidence = alone.aiConfidence
                      /\ data'.aiReasoning = alone.aiReasoning
                      /\ (~(Truthy(result.lat) /\ Truthy(result.lng))
                             => data'.exifLocation = Undef)]_vars

\* A record whose first guess had coordinates is held while a second request
\* for the same file is in flight.
C25_Witness ==
    /\ data # Null
    /\ data.aiGuessed = True
    /\ data.exifLocation # Undef
    /\ ~data.gpsFound
    /\ \E task \in Suspended :
           task = Task("handleAiGuess", "generate", data.file)

\* C26: after a failed AI call the error is surfaced: in the state the step
\* handling the failure leaves the app in, the message it set is displayed.
C26_AiErrorDisplayed ==
    [][(handleAiGuessNoKey \/ AiReadFailed \/ AiGuessFailed) => ErrorShown']_vars

\* C27: an input that is not an image of an accepted type, or is larger than
\* the advertised limit, is rejected at the boundary: extractImageMetadata
\* is never running on such a file, whichever way the file came in.
C27_InvalidInputRejected ==
    \A task \in Suspended :
        (task.k = "processFile" /\ task.pc = "extract")
            => /\ FileType(task.file) \in AcceptedTypes
               /\ FileMegabytes(task.file) <= MaxMegabytes

\* C28: whenever appState is RESULT the record is non-null.
C28_ResultHasRecord == appState = "RESULT" => data # Null

\* C29: the app never stays in ANALYZING for ever: provided every awaited
\* operation settles, each time appState is ANALYZING it is RESULT or IDLE
\* at some later moment.
C29_AnalyzingEnds ==
    (appState = "ANALYZING") ~> (appState \in {"RESULT", "IDLE"})

C29_Witness ==
    /\ appState = "ANALYZING"
    /\ \E task \in Suspended : task.k = "processImageUrl"

\* C30: after resetApp the app stays IDLE, without record and without error
\* message, until the user starts an upload: the completion of an operation
\* that was in flight changes neither appState nor data.
C30_ResetIsFinal ==
    [][(/\ appState = "IDLE"
        /\ data = Null
        /\ errorMsg = Null
        /\ ~showStripper
        /\ \/ UrlFetched \/ UrlFetchFailed
           \/ ExtractDone \/ GeocodeDone
           \/ AiReadDone \/ AiReadFailed
           \/ AiGuessed \/ AiGuessFailed)
           => (appState' = "IDLE" /\ data' = Null /\ errorMsg' = Null)]_vars

====
